---------------------------- MODULE Spec2Model ----------------------------
(***************************************************************************)
(* A model of despac_warrant_mc.py: the discounting helper DCF and the     *)
(* Monte Carlo warrant pricer price_warrant.                               *)
(*                                                                         *)
(* Numbers.  Prices and cash flows are integers in units of half a dollar  *)
(* (X = 11.5 is 23, the barrier 18 is 36).  T is in units of half a step   *)
(* (1/504 year), so that int(T/dt) truncates.  Discounted values are       *)
(* elements of Z[delta], polynomials with integer coefficients in          *)
(* delta = exp(-r*dt); delta is transcendental, so two such values are     *)
(* equal as reals exactly when their coefficients are equal.  A value is   *)
(* a function from the exponents with a non-zero coefficient to that       *)
(* coefficient.                                                            *)
(*                                                                         *)
(* The generator.  The state of numpy's global generator is the pair       *)
(* (seed, number of normals drawn since seeding); the stream of a seed is  *)
(* a fixed sequence, here any sequence of -1, 0, +1 with one non-zero      *)
(* entry at most (the variable shock, constant along a behaviour).         *)
(*                                                                         *)
(* The GBM step.  exp(drift + vol_step*draw) is a strictly positive        *)
(* factor; here it is 2^(vol*draw), the drift being 0 on this grid, and    *)
(* the inputs are such that every division by a power of 2 is exact.       *)
(*                                                                         *)
(* The mean and the standard error are kept without their divisions:       *)
(* w_prc is N times the mean, se is N^3 times the squared standard error.  *)
(***************************************************************************)
EXTENDS Integers, Sequences, FiniteSets

VARIABLES
    S0, T, vol,          \* the arguments of the call of price_warrant
    shock,               \* the stream of seed 1234: [at, sign]
    rng,                 \* numpy's global generator: [seed, pos]
    pc,                  \* position in price_warrant
    outcome,             \* how the call ended
    steps, draws, S, B18, W, SR, t,   \* locals of price_warrant
    path_values, w_prc, se,
    callNo, first,       \* the driver: which call, and what the first returned
    cf_in, disc_factor, dcf_out       \* a call of DCF on its own

vars == <<S0, T, vol, shock, rng, pc, outcome, steps, draws, S, B18, W, SR, t,
          path_values, w_prc, se, callNo, first, cf_in, disc_factor, dcf_out>>

pwVars == <<S0, T, vol, shock, rng, pc, outcome, steps, draws, S, B18, W, SR, t,
            path_values, w_prc, se, callNo, first>>

dcfVars == <<cf_in, disc_factor, dcf_out>>

-----------------------------------------------------------------------------
(* Bounds *)

\* Half the number of simulated paths (N = 100000 in the source).
HalfN == 1

\* The largest number of steps a call is given.
MaxSteps == 44

\* DCF on its own: the largest number of columns of a cash-flow array.
MaxCols == 3

-----------------------------------------------------------------------------
(* Program constants *)

X == 23            \* strike 11.5, in half-dollars
lockout == 0
Barrier == 36      \* 18, in half-dollars
window == 30
Trigger == 20
Delay == 22
Seed == 1234
HalfSteps == 2     \* dt = 1/252 in units of T (half-steps): T/dt = T/2

N == 2 * HalfN

\* a local that holds no value yet: no element of Z[delta] has exponent -1
Unbound == [e \in {-1} |-> 0]
NoResult == "none"

Max(a, b) == IF a >= b THEN a ELSE b

RECURSIVE Pow2(_)
Pow2(k) == IF k <= 0 THEN 1 ELSE 2 * Pow2(k - 1)

-----------------------------------------------------------------------------
(* Z[delta] *)

Zero == [e \in {} |-> 0]
Const(c) == [e \in (IF c = 0 THEN {} ELSE {0}) |-> c]
Delta == [e \in {1} |-> 1]
Coef(p, e) == IF e \in DOMAIN p THEN p[e] ELSE 0

Add(p, q) ==
    LET D == DOMAIN p \cup DOMAIN q
    IN  [e \in {x \in D : Coef(p, x) + Coef(q, x) # 0} |-> Coef(p, e) + Coef(q, e)]

Neg(p) == [e \in DOMAIN p |-> 0 - p[e]]
Sub(p, q) == Add(p, Neg(q))

RECURSIVE MulCoef(_, _, _, _)
MulCoef(p, q, e, A) ==
    IF A = {} THEN 0
    ELSE LET a == CHOOSE x \in A : TRUE
         IN  (IF (e - a) \in DOMAIN q THEN p[a] * q[e - a] ELSE 0)
             + MulCoef(p, q, e, A \ {a})

Mul(p, q) ==
    LET E == {a + b : a \in DOMAIN p, b \in DOMAIN q}
    IN  [e \in {x \in E : MulCoef(p, q, x, DOMAIN p) # 0} |-> MulCoef(p, q, e, DOMAIN p)]

RECURSIVE SumSeq(_)
SumSeq(s) == IF s = << >> THEN Zero ELSE Add(Head(s), SumSeq(Tail(s)))


-----------------------------------------------------------------------------
(* DCF, lines 11-35.  An array is [ndim, rows]: rows is a sequence of        *)
(* numbers (ndim = 1) or a sequence of equally long sequences (ndim = 2).    *)
(* Column j of the source (0-based) is entry j+1 of a row.                   *)

Array1(v) == [ndim |-> 1, rows |-> v]
Array2(m) == [ndim |-> 2, rows |-> m]

\* line 14: cf_in.reshape(cf_in.shape[0], 1)
Reshape(a) == Array2([i \in DOMAIN a.rows |-> <<a.rows[i]>>])

NCols(a) == IF a.rows = << >> THEN 0 ELSE Len(a.rows[1])

\* lines 26-27, one row: the loop from column tt down to column 1, entered
\* with next = dcf_out[:, tt+1].  (The test on next has TLC evaluate it at
\* each iteration; no value of the loop is Unbound.)
RECURSIVE DcfLoop(_, _, _, _)
DcfLoop(row, d, tt, next) ==
    IF tt < 1 \/ next = Unbound THEN next
    ELSE DcfLoop(row, d, tt - 1, Add(Mul(d, next), Const(row[tt])))

\* lines 21-27, one row: dcf_out[:, 1]
DcfCol1(row, d) ==
    LET n == Len(row)
        last == Add(Mul(d, Const(row[n])), Const(row[n - 1]))
    IN  IF n > 2 THEN DcfLoop(row, d, n - 2, last) ELSE last

\* A slip: the last period is not discounted back to the present (line 29).
DCF_NoFinalDiscount(cf, disc) ==
    LET a == IF cf.ndim = 1 THEN Reshape(cf) ELSE cf
        n == NCols(a)
    IN  IF n > 1 THEN [i \in DOMAIN a.rows |-> DcfCol1(a.rows[i], disc)]
        ELSE IF n = 1 THEN [i \in DOMAIN a.rows |-> Mul(disc, Const(a.rows[i][1]))]
        ELSE "IndexError"

DCF(cf, disc) ==
    LET a == IF cf.ndim = 1 THEN Reshape(cf) ELSE cf
        n == NCols(a)
    IN  IF n > 1
        THEN [i \in DOMAIN a.rows |-> Mul(disc, DcfCol1(a.rows[i], disc))]
        ELSE IF n = 1
        THEN [i \in DOMAIN a.rows |-> Mul(disc, Const(a.rows[i][1]))]
        ELSE "IndexError"      \* line 35: column 0 of an array with no column

-----------------------------------------------------------------------------
(* The generator *)

\* The k-th normal of the stream of a seed.  Another seed has another stream.
Normal(seed, k) ==
    IF seed = Seed
    THEN (IF k = shock.at THEN shock.sign ELSE 0)
    ELSE (IF k + 1 = shock.at THEN 0 - shock.sign ELSE 0)

\* A slip: the generator is not reseeded (line 64 missing).
Reseed_Skipped(g) == g

\* line 64: np.random.seed(1234)
Reseed(g) == [seed |-> Seed, pos |-> 0]

\* line 66: np.random.normal(size=(rows, cols)), filled row by row
NormalDraws(g, rows, cols) ==
    [i \in 1..rows |-> [u \in 0..(cols - 1) |-> Normal(g.seed, g.pos + (i - 1) * cols + u)]]

Advance(g, k) == [g EXCEPT !.pos = @ + k]

\* line 67: np.concatenate((draws, -draws))
Antithetic(d) ==
    [i \in 1..(2 * Len(d)) |->
        IF i <= Len(d) THEN d[i] ELSE [u \in DOMAIN d[i - Len(d)] |-> 0 - d[i - Len(d)][u]]]

-----------------------------------------------------------------------------
(* price_warrant *)

\* line 56: int(T/dt), truncation toward zero; T is in half-steps
Steps(TT) == IF TT >= 0 THEN TT \div HalfSteps ELSE 0 - ((0 - TT) \div HalfSteps)

Zeros(n, m) == [i \in 1..n |-> [u \in 0..(m - 1) |-> 0]]

\* exp(drift + vol_step*draw), the factor 2^(v*draw), applied to a price
Grow(s, v, draw) ==
    IF v * draw >= 0 THEN s * Pow2(v * draw) ELSE s \div Pow2(0 - (v * draw))

\* lines 68-69, one row as the sequence S[0], ..., S[n]
RECURSIVE GBMSeq(_, _, _, _)
GBMSeq(s0, v, d, n) ==
    IF n <= 0 THEN <<s0>>
    ELSE LET prev == GBMSeq(s0, v, d, n - 1)
         IN  Append(prev, Grow(prev[n], v, d[n - 1]))

\* A slip: the shock is not scaled by the volatility.
GBM_ShockUnscaled(s0, v, d, n) ==
    LET seq == GBMSeq(s0, 1, d, n)
    IN  [u \in 0..n |-> seq[u + 1]]

\* lines 61 and 68-69, one row: S[0] = S0, S[t] = S[t-1]*exp(drift + vol_step*draw[t-1])
GBM(s0, v, d, n) ==
    LET seq == GBMSeq(s0, v, d, n)
    IN  [u \in 0..n |-> seq[u + 1]]

Count18(row, a, b) == Cardinality({u \in a..b : row[u] >= Barrier})

\* A slip: the ramp-up window starts at step lockout+1 instead of lockout.
BarrierCount_LateStart(row, tt) ==
    IF tt >= 1 /\ tt > lockout
    THEN IF tt - lockout < 29
         THEN Count18(row, lockout + 1, tt)
         ELSE Count18(row, tt - window + 1, tt)
    ELSE 0

\* lines 75-80, one entry of B18
BarrierCount(row, tt) ==
    IF tt >= 1 /\ tt > lockout
    THEN IF tt - lockout < 29
         THEN Count18(row, lockout, tt)
         ELSE Count18(row, tt - window + 1, tt)
    ELSE 0

\* A slip: only the entry at t+22 is zeroed, not the rest of the row.
Redeem_OneEntry(row, b, tt) ==
    [u \in DOMAIN row |-> IF b[tt] >= Trigger /\ u = tt + Delay THEN 0 ELSE row[u]]

\* A slip: the delay is one step short.
Redeem_ShortDelay(row, b, tt) ==
    [u \in DOMAIN row |-> IF b[tt] >= Trigger /\ u >= tt + Delay - 1 THEN 0 ELSE row[u]]

\* line 84, one row: S[B18[:,t] >= 20, t+22:] = 0
Redeem(row, b, tt) ==
    [u \in DOMAIN row |-> IF b[tt] >= Trigger /\ u >= tt + Delay THEN 0 ELSE row[u]]

\* line 89, one row
InitW(row, n) == [u \in 0..n |-> IF u = n THEN Max(row[n] - X, 0) ELSE 0]

\* A slip: np.ones for np.zeros.
InitSR_Ones(row, n) == [u \in 0..n |-> 1]

\* lines 91-92, one row
InitSR(row, n) == [u \in 0..n |-> IF u = n /\ row[n] > X THEN 1 ELSE 0]

\* A slip: the exercise does not wait for the redemption to take effect.
Exercises_AnyITM(row, tt) == row[tt] > X

\* line 101, one row
Exercises(row, tt) == row[tt] > X /\ row[tt + 1] = 0

\* lines 104-119, one row of W and of SR
ExerciseW(w, row, tt) ==
    LET stop_rule == IF Exercises(row, tt) THEN 1 ELSE 0
        cash_flow == stop_rule * Max(row[tt] - X, 0)
    IN  [u \in DOMAIN w |-> IF u = tt THEN cash_flow
                            ELSE IF stop_rule = 1 /\ u > tt THEN 0 ELSE w[u]]

ExerciseSR(sr, row, tt) ==
    LET stop_rule == IF Exercises(row, tt) THEN 1 ELSE 0
    IN  [u \in DOMAIN sr |-> IF u = tt THEN stop_rule
                             ELSE IF stop_rule = 1 /\ u > tt THEN 0 ELSE sr[u]]

\* W[:, 1:]
From1(m) == Array2([i \in DOMAIN m |-> [j \in 1..(Cardinality(DOMAIN m[i]) - 1) |-> m[i][j]]])

\* line 130, times N
Mean(pv) == SumSeq(pv)

\* line 131, squared, times N^3:  N*sum(x^2) - (sum x)^2
StdErr(pv) ==
    Sub(Mul(Const(Len(pv)), SumSeq([i \in DOMAIN pv |-> Mul(pv[i], pv[i])])),
        Mul(SumSeq(pv), SumSeq(pv)))

-----------------------------------------------------------------------------
(* Inputs *)

S0Values == {-32, 0, 16, 32, 64}         \* -16, 0, 8, 16, 32 dollars
VolValues == {-1, 0, 1, 2}
\* the step at which a redemption can first take effect
FirstRedeem == (Trigger - 1) + Delay
\* T: the short horizons, the horizon that ends at the step a redemption can
\* first take effect, and the longest one plus half a step
TValues == (-4..5) \cup {HalfSteps * FirstRedeem, HalfSteps * MaxSteps + 1}
\* The one non-zero normal of the stream falls near the start of a row of
\* draws, near the step at which the count can first reach the trigger, or
\* near the step at which a redemption can first take effect.
ShockSteps ==
    ((0..2) \cup ((Trigger - 2)..Trigger) \cup ((FirstRedeem - 2)..FirstRedeem))
    \cap (0..(MaxSteps - 1))
NoShock == [at |-> -1, sign |-> 1]
Shocks ==
    {NoShock} \cup [at : {r * MaxSteps + u : r \in 0..(HalfN - 1), u \in ShockSteps},
                    sign : {-1, 1}]
RngStates == {[seed |-> Seed, pos |-> 1], [seed |-> 4321, pos |-> 0]}

CfValues == {0, 5, 10}
DiscValues == {Delta, Const(0), Const(2), Const(-1)}
CfArrays ==
    {Array1(v) : v \in UNION {[1..r -> CfValues] : r \in 1..2}}
    \cup {Array2(m) : m \in UNION {[1..r -> [1..n -> CfValues]] : r \in 1..2, n \in 0..MaxCols}}

-----------------------------------------------------------------------------
(* The state machine of one call of price_warrant, and of its caller *)

Locals0 ==
    /\ steps = 0 /\ draws = << >> /\ S = << >> /\ B18 = << >> /\ W = << >>
    /\ SR = << >> /\ t = 0
    /\ path_values = Unbound /\ w_prc = Unbound /\ se = Unbound
    /\ outcome = NoResult

Init ==
    /\ S0 \in S0Values /\ T \in TValues /\ vol \in VolValues
    /\ shock \in Shocks
    /\ rng \in RngStates
    /\ pc = "entry"
    /\ Locals0
    /\ callNo = 1 /\ first = NoResult
    /\ cf_in = Array2(<< >>) /\ disc_factor = Delta /\ dcf_out = NoResult

\* lines 44-61: the constants, steps, and the price matrix with column 0 set
Setup ==
    /\ pc = "entry"
    /\ steps' = Steps(T)
    /\ IF steps' + 1 < 0
       THEN /\ outcome' = "ValueError"        \* line 60: negative dimension
            /\ pc' = "done"
            /\ S' = S
       ELSE IF steps' + 1 = 0
       THEN /\ outcome' = "IndexError"        \* line 61: no column 0
            /\ pc' = "done"
            /\ S' = Zeros(N, 0)
       ELSE /\ outcome' = outcome
            /\ pc' = "draw"
            /\ S' = [i \in 1..N |-> [u \in 0..steps' |-> IF u = 0 THEN S0 ELSE 0]]
    /\ UNCHANGED <<S0, T, vol, shock, rng, draws, B18, W, SR, t, path_values,
                   w_prc, se, callNo, first, dcfVars>>

\* lines 64-67: seed the generator and draw, antithetically
Draw ==
    /\ pc = "draw"
    /\ draws' = Antithetic(NormalDraws(Reseed(rng), N \div 2, steps))
    /\ rng' = Advance(Reseed(rng), (N \div 2) * steps)
    /\ pc' = "simulate"
    /\ UNCHANGED <<S0, T, vol, shock, outcome, steps, S, B18, W, SR, t,
                   path_values, w_prc, se, callNo, first, dcfVars>>

\* lines 68-69: the paths
Simulate ==
    /\ pc = "simulate"
    /\ S' = [i \in 1..N |-> GBM(S[i][0], vol, draws[i], steps)]
    /\ pc' = "count"
    /\ UNCHANGED <<S0, T, vol, shock, rng, outcome, steps, draws, B18, W, SR, t,
                   path_values, w_prc, se, callNo, first, dcfVars>>

\* lines 73-80: the barrier counts
CountBarrier ==
    /\ pc = "count"
    /\ B18' = [i \in 1..N |-> [u \in 0..steps |-> BarrierCount(S[i], u)]]
    /\ t' = 0
    /\ pc' = "redeem"
    /\ UNCHANGED <<S0, T, vol, shock, rng, outcome, steps, draws, S, W, SR,
                   path_values, w_prc, se, callNo, first, dcfVars>>

\* lines 83-84: one iteration of the zeroing loop
RedeemStep ==
    /\ pc = "redeem"
    /\ t < steps - 1
    /\ S' = [i \in 1..N |-> Redeem(S[i], B18[i], t)]
    /\ t' = t + 1
    /\ UNCHANGED <<S0, T, vol, shock, rng, pc, outcome, steps, draws, B18, W, SR,
                   path_values, w_prc, se, callNo, first, dcfVars>>

\* lines 88-92: the cash flows and the stop rule at maturity
InitWSR ==
    /\ pc = "redeem"
    /\ ~(t < steps - 1)
    /\ W' = [i \in 1..N |-> InitW(S[i], steps)]
    /\ SR' = [i \in 1..N |-> InitSR(S[i], steps)]
    /\ t' = steps - 1
    /\ pc' = "exercise"
    /\ UNCHANGED <<S0, T, vol, shock, rng, outcome, steps, draws, S, B18,
                   path_values, w_prc, se, callNo, first, dcfVars>>

\* lines 95-131: one iteration of the backward loop, valuation included
ExerciseStep ==
    /\ pc = "exercise"
    /\ t > 0
    /\ IF t > lockout
       THEN /\ W' = [i \in 1..N |-> ExerciseW(W[i], S[i], t)]
            /\ SR' = [i \in 1..N |-> ExerciseSR(SR[i], S[i], t)]
       ELSE UNCHANGED <<W, SR>>
    /\ path_values' = DCF(From1(W'), Delta)
    /\ w_prc' = Mean(path_values')
    /\ se' = StdErr(path_values')
    /\ t' = t - 1
    /\ UNCHANGED <<S0, T, vol, shock, rng, pc, outcome, steps, draws, S, B18,
                   callNo, first, dcfVars>>

\* line 133: return w_prc, se
Return ==
    /\ pc = "exercise"
    /\ ~(t > 0)
    /\ outcome' = IF w_prc = Unbound THEN "UnboundLocalError" ELSE "returned"
    /\ pc' = "done"
    /\ UNCHANGED <<S0, T, vol, shock, rng, steps, draws, S, B18, W, SR, t,
                   path_values, w_prc, se, callNo, first, dcfVars>>

\* line 140: the caller calls again with the same arguments, after any other
\* use of the global generator
CallAgain ==
    /\ pc = "done"
    /\ callNo = 1
    /\ first' = [outcome |-> outcome, w_prc |-> w_prc, se |-> se]
    /\ callNo' = 2
    /\ rng' \in RngStates \cup {rng}
    /\ pc' = "entry"
    /\ steps' = 0 /\ draws' = << >> /\ S' = << >> /\ B18' = << >> /\ W' = << >>
    /\ SR' = << >> /\ t' = 0
    /\ path_values' = Unbound /\ w_prc' = Unbound /\ se' = Unbound
    /\ outcome' = NoResult
    /\ UNCHANGED <<S0, T, vol, shock, dcfVars>>

Next ==
    \/ Setup
    \/ Draw
    \/ Simulate
    \/ CountBarrier
    \/ RedeemStep
    \/ InitWSR
    \/ ExerciseStep
    \/ Return

Spec == Init /\ [][Next]_vars

-----------------------------------------------------------------------------
(* DCF on its own *)

InitDCF ==
    /\ cf_in \in CfArrays
    /\ disc_factor \in DiscValues
    /\ dcf_out = NoResult
    /\ pc = "dcf"
    /\ S0 = 0 /\ T = 0 /\ vol = 0 /\ shock = NoShock
    /\ rng = [seed |-> Seed, pos |-> 0]
    /\ Locals0
    /\ callNo = 0 /\ first = NoResult

CallDCF ==
    /\ pc = "dcf"
    /\ dcf_out' = DCF(cf_in, disc_factor)
    /\ pc' = "dcf_done"
    /\ UNCHANGED <<S0, T, vol, shock, rng, outcome, steps, draws, S, B18, W, SR, t,
                   path_values, w_prc, se, callNo, first, cf_in, disc_factor>>

NextDCF == CallDCF

SpecDCF == InitDCF /\ [][NextDCF]_vars

-----------------------------------------------------------------------------
(* Two calls with the same arguments *)

InitTwice == Init /\ S0 \in {32, 64}

NextTwice == Next \/ CallAgain

SpecTwice == InitTwice /\ [][NextTwice]_vars

-----------------------------------------------------------------------------
(* Properties *)

Paths == 1..N

\* the price row of path i as simulated, before any zeroing
SimRow(i) == GBM(S0, vol, draws[i], steps)

Simulated == pc \in {"count", "redeem", "exercise"} \/ (pc = "done" /\ W # << >>)
\* the counting loop has just ended: S is as simulated and B18 is final
Counted == pc = "redeem" /\ t = 0
ZeroingDone ==
    \/ pc = "redeem" /\ ~(t < steps - 1)
    \/ pc = "exercise"
    \/ pc = "done" /\ W # << >>
PassDone == (pc = "exercise" /\ t <= 0) \/ (pc = "done" /\ W # << >>)

RECURSIVE RowSum(_, _)
RowSum(row, n) == IF n < 0 THEN 0 ELSE row[n] + RowSum(row, n - 1)

NonZero(row) == Cardinality({u \in DOMAIN row : row[u] # 0})

Valid == S0 > 0 /\ T > 0 /\ vol >= 0

\* C1: after the backward pass every entry of SR is 0 or 1, every path's
\* row of SR sums to 0 or 1, and its row of W has one non-zero entry at most.
AtMostOneExercise ==
    PassDone =>
        \A i \in Paths :
            /\ \A u \in 0..steps : SR[i][u] \in {0, 1}
            /\ RowSum(SR[i], steps) \in {0, 1}
            /\ NonZero(W[i]) <= 1

\* C1 witness: a pass has ended with a path exercised before maturity and
\* a path never exercised.
AtMostOneExerciseWitness ==
    /\ PassDone
    /\ \E i \in Paths : \E u \in 1..(steps - 1) : SR[i][u] = 1 /\ W[i][u] > 0
    /\ \E i \in Paths : RowSum(SR[i], steps) = 0

Absorbing(row) ==
    \A u \in DOMAIN row : row[u] = 0 => \A v \in DOMAIN row : v > u => row[v] = 0

\* C2: with S0 > 0, before and after every iteration of the zeroing loop and
\* ever after, a zero entry of S is followed by zero entries only.
Absorption ==
    (S0 > 0 /\ pc \in {"redeem", "exercise", "done"}) =>
        \A i \in DOMAIN S : Absorbing(S[i])

\* C2 witness: inside the zeroing loop, a path has been zeroed from some
\* step on and the loop has iterations left.
AbsorptionWitness ==
    /\ S0 > 0 /\ pc = "redeem" /\ t < steps - 1
    /\ \E i \in Paths : S[i][steps] = 0 /\ S[i][steps - 2] = 0 /\ S[i][0] # 0

RECURSIVE Power(_, _)
Power(d, j) == IF j = 0 THEN Const(1) ELSE Mul(d, Power(d, j - 1))

\* the sum over j = 1..n of d^j * cf(j)
PresentValue(row, d) == SumSeq([j \in 1..Len(row) |-> Mul(Power(d, j), Const(row[j]))])

DcfRows == IF cf_in.ndim = 1 THEN Reshape(cf_in).rows ELSE cf_in.rows

\* C3: for an array of n >= 1 columns DCF returns, for each path, the sum
\* over j = 1..n of d^j * cf(j); for [5, 0, 10] that is d*(d*(d*10+0)+5), and
\* for one column d*cf.
DcfCorrect ==
    (pc = "dcf_done" /\ NCols(Array2(DcfRows)) >= 1) =>
        LET d == disc_factor
        IN  /\ DOMAIN dcf_out = DOMAIN DcfRows
            /\ \A i \in DOMAIN DcfRows :
                /\ dcf_out[i] = PresentValue(DcfRows[i], d)
                /\ DcfRows[i] = <<5, 0, 10>> =>
                     dcf_out[i] =
                        Mul(d, Add(Mul(d, Add(Mul(d, Const(10)), Const(0))), Const(5)))
                /\ Len(DcfRows[i]) = 1 => dcf_out[i] = Mul(d, Const(DcfRows[i][1]))

\* C3 witness: at d = 2 DCF has returned 2*(2*(2*10+0)+5) = 90 for the path
\* [5, 0, 10] and 2*(2*(2*5+10)+0) = 80 for the path [0, 10, 5].
DcfCorrectWitness ==
    /\ pc = "dcf_done"
    /\ cf_in.ndim = 2
    /\ Len(cf_in.rows) = 2
    /\ cf_in.rows[1] = <<5, 0, 10>>
    /\ cf_in.rows[2] = <<0, 10, 5>>
    /\ disc_factor = Const(2)
    /\ dcf_out[1] = Const(90)
    /\ dcf_out[2] = Const(80)

Invalid == S0 <= 0 \/ T <= 0 \/ vol < 0

\* C4: a call with S0 <= 0, T <= 0 or vol < 0 ends in an error raised before
\* any draw is taken, and returns no result.
ValidationFirst ==
    (Invalid /\ pc = "done") => (outcome # "returned" /\ draws = << >>)

\* C5: a call with S0 > 0, T > 0 and vol >= 0 that has ended has returned a
\* pair whose price is the mean of the present values of the final W.
Completion ==
    (Valid /\ pc = "done") =>
        /\ outcome = "returned"
        /\ w_prc = Mean(DCF(From1(W), Delta))

\* C6: the second of two calls with the same arguments ends as the first
\* did, with the same price and the same standard error, whatever the state
\* of the generator at entry to either.
Determinism ==
    (callNo = 2 /\ pc = "done") =>
        first = [outcome |-> outcome, w_prc |-> w_prc, se |-> se]

\* C6 witness: a second call has returned a non-zero price that rests on a
\* non-zero draw.
DeterminismWitness ==
    /\ callNo = 2 /\ pc = "done" /\ outcome = "returned"
    /\ w_prc # Zero
    /\ vol # 0
    /\ \E i \in Paths : \E u \in DOMAIN draws[i] : draws[i][u] # 0

SameRows(m, i, j) == m = << >> \/ m[i] = m[j]

\* C7: with vol = 0 all paths have the same row of S, B18, W and SR at every
\* point after the simulation, the same present value, and the standard
\* error is 0; and at the end of the backward pass any two paths with equal
\* simulated price rows have equal rows of S, B18, W and SR and equal
\* present values.
IdenticalPaths ==
    /\ (Simulated /\ vol = 0) =>
          /\ \A i, j \in Paths :
                /\ SameRows(S, i, j) /\ SameRows(B18, i, j)
                /\ SameRows(W, i, j) /\ SameRows(SR, i, j)
                /\ path_values # Unbound => path_values[i] = path_values[j]
          /\ se # Unbound => se = Zero
    /\ PassDone =>
          \A i, j \in Paths :
             (i < j /\ SimRow(i) = SimRow(j)) =>
                 /\ S[i] = S[j] /\ B18[i] = B18[j] /\ W[i] = W[j] /\ SR[i] = SR[j]
                 /\ path_values # Unbound => path_values[i] = path_values[j]

\* C7 witness: a call with vol = 0 has returned a non-zero price from paths
\* redeemed at the same step, although the draws of the paths differ.
IdenticalPathsWitness ==
    /\ pc = "done" /\ outcome = "returned" /\ vol = 0
    /\ w_prc # Zero /\ se = Zero
    /\ draws[1] # draws[2]
    /\ \A i \in Paths : S[i][steps] = 0 /\ S[i][FirstRedeem - 1] # 0

\* the number of steps u in b-k+1..b, k steps ending at b, with price >= 18
Trailing(row, b, k) == Count18(row, b - k + 1, b)

Min(a, b) == IF a <= b THEN a ELSE b

\* C8 as stated: for lockout < t <= steps, B18[path, t] counts the steps
\* with price >= 18 among the min(30, t - lockout) steps ending at t (here
\* for the calls with S0 > 0, T > 0 and vol >= 0 alone).
BarrierCountAsStated ==
    (Valid /\ Counted) =>
        \A i \in Paths : LET sim == SimRow(i) IN \A u \in 0..steps :
            /\ u > lockout => B18[i][u] = Trailing(sim, u, Min(window, u - lockout))
            /\ u <= lockout => B18[i][u] = 0
            /\ B18[i][u] >= 0 /\ B18[i][u] <= window

\* C8 amended: the window is the min(30, t - lockout + 1) steps ending at t:
\* during the ramp-up it starts at step lockout itself.
BarrierCountAmended ==
    Counted =>
        \A i \in Paths : LET sim == SimRow(i) IN \A u \in 0..steps :
            /\ u > lockout => B18[i][u] = Trailing(sim, u, Min(window, u - lockout + 1))
            /\ u <= lockout => B18[i][u] = 0
            /\ B18[i][u] >= 0 /\ B18[i][u] <= window

\* C8 witness: a path has price >= 18 at step 0 and at step 1, so B18 is 2
\* at step 1, and the count of a full window differs from the ramp-up's.
BarrierCountWitness ==
    /\ Counted /\ steps > window
    /\ \E i \in Paths :
          /\ B18[i][1] = 2
          /\ B18[i][window - 1] = window
          /\ B18[i][steps] > 0 /\ B18[i][steps] < B18[i][window]

\* C9: with S0 > 0, after the zeroing loop S[path, u] is 0 exactly when the
\* count reached 20 at a step t <= u - 22; every other entry is the
\* simulated price.
RedemptionSchedule ==
    (S0 > 0 /\ ZeroingDone) =>
        \A i \in Paths : LET sim == SimRow(i) IN \A u \in 0..steps :
            /\ S[i][u] = 0 <=> \E tt \in 0..(u - Delay) : B18[i][tt] >= Trigger
            /\ S[i][u] # 0 => S[i][u] = sim[u] /\ S[i][u] > 0

\* C9 witness: after the loop one path is zeroed from a step later than the
\* first possible one, and another path is not zeroed at all.
RedemptionScheduleWitness ==
    /\ S0 > 0 /\ ZeroingDone /\ steps > FirstRedeem
    /\ \E i \in Paths : S[i][steps] = 0 /\ S[i][FirstRedeem] # 0
    /\ \E i \in Paths : S[i][steps] # 0

ExercisedBefore(i, u) == \E v \in 0..(u - 1) : SR[i][v] = 1

\* C10: in the final W and SR, at a step t with lockout < t < steps,
\* SR = 1 and W = S - X exactly when S[t] > X and S[t+1] = 0, and both are 0
\* otherwise; at maturity W = max(S - X, 0) and SR = 1 iff S > X, unless the
\* path exercised earlier; after an exercise every later entry is 0.
ExerciseRule ==
    PassDone =>
        \A i \in Paths :
            /\ \A u \in (lockout + 1)..(steps - 1) :
                  IF S[i][u] > X /\ S[i][u + 1] = 0
                  THEN SR[i][u] = 1 /\ W[i][u] = S[i][u] - X
                  ELSE SR[i][u] = 0 /\ W[i][u] = 0
            /\ \A u \in 0..steps :
                  ExercisedBefore(i, u) => SR[i][u] = 0 /\ W[i][u] = 0
            /\ ~ExercisedBefore(i, steps) =>
                  /\ W[i][steps] = Max(S[i][steps] - X, 0)
                  /\ SR[i][steps] = 1 <=> S[i][steps] > X

\* C10 witness: a pass has ended with one path exercised the step before its
\* redemption takes effect and one path exercised at maturity.
ExerciseRuleWitness ==
    /\ PassDone /\ steps > FirstRedeem
    /\ \E i \in Paths : \E u \in 1..(steps - 1) :
          SR[i][u] = 1 /\ W[i][u] = S[i][u] - X /\ S[i][u + 1] = 0 /\ W[i][steps] = 0
    /\ \E i \in Paths : SR[i][steps] = 1 /\ W[i][steps] = S[i][steps] - X

=============================================================================
